---------------------------- MODULE Spec2Model ----------------------------
(***************************************************************************)
(* A model of mcp-spaced-repetition: the FSRS scheduler (fsrs.py), the     *)
(* card store (storage.py) and the tool handlers (server.py).              *)
(*                                                                         *)
(* Real numbers are fixed-point integers with four decimals: the integer   *)
(* n stands for n / SCALE.  Timestamps and durations are in days, in the   *)
(* same fixed-point unit.  math.exp and math.pow are computed by series    *)
(* to that precision.                                                      *)
(***************************************************************************)
EXTENDS Integers, Sequences, FiniteSets, TLC

(***************************************************************************)
(* Fixed-point arithmetic                                                  *)
(***************************************************************************)
SCALE == 10 * 1000

\* the real number whose decimal digits are i.ffff
Fx(i, f) == i * SCALE + f

Max2(a, b) == IF a >= b THEN a ELSE b

Min2(a, b) == IF a <= b THEN a ELSE b

\* floor(a * b) for fixed-point a, b; the partial products keep every
\* intermediate value below the result
Mul(a, b) ==
    LET ah == a \div SCALE
        al == a % SCALE
        bh == b \div SCALE
        bl == b % SCALE
    IN  ah * bh * SCALE + ah * bl + al * bh + (al * bl) \div SCALE

\* the fraction r / b for 0 <= r < b, to four decimals
RECURSIVE FracDiv(_, _)
FracDiv(r, b) ==
    IF r <= 200000 THEN (r * SCALE) \div b
    ELSE FracDiv(r \div 10, b \div 10)

\* floor(a / b) for fixed-point a >= 0, b > 0
Div(a, b) == (a \div b) * SCALE + FracDiv(a % b, b)

\* int(x): truncation of a non-negative fixed-point number to an integer
IntPart(x) == x \div SCALE

\* e^k for integer k, fixed-point; e^-10 and below round to 0
EulerNeg == << 3679, 1353, 498, 183, 67, 25, 9, 3, 1 >>

RECURSIVE EPow(_)
EPow(k) ==
    IF k = 0 THEN SCALE
    ELSE IF k > 0 THEN Mul(27183, EPow(k - 1))
    ELSE IF -k <= Len(EulerNeg) THEN EulerNeg[-k]
    ELSE 0

\* sum of f^n / n! for n = from .. 9, where term = f^(from-1) / (from-1)!
RECURSIVE ExpSeries(_, _, _)
ExpSeries(f, term, n) ==
    IF n > 9 \/ term = 0 THEN 0
    ELSE LET t == Mul(term, f) \div n IN t + ExpSeries(f, t, n + 1)

\* math.exp(x): e^floor(x) * e^frac(x).  Arguments of 9 and more saturate
\* at e^9: the code only ever negates such a value and exponentiates it
\* again, which is 0 to four decimals either way.
Exp(x) ==
    LET k == x \div SCALE
        f == x % SCALE
    IN  IF k >= 9 THEN EPow(9)
        ELSE Mul(EPow(k), SCALE + ExpSeries(f, SCALE, 1))

\* 2 * atanh(z) = 2 * (z + z^3/3 + z^5/5 + z^7/7 + z^9/9), 0 <= z <= 1/3
Atanh2(z) ==
    LET z2 == Mul(z, z)
        z3 == Mul(z, z2)
        z5 == Mul(z3, z2)
        z7 == Mul(z5, z2)
        z9 == Mul(z7, z2)
    IN  2 * (z + z3 \div 3 + z5 \div 5 + z7 \div 7 + z9 \div 9)

\* math.log(x) for x > 0: x = m * 2^k with 1 <= m < 2, ln x = k ln 2 + ln m
RECURSIVE LnNorm(_, _)
LnNorm(x, k) ==
    IF x >= 2 * SCALE THEN LnNorm(x \div 2, k + 1)
    ELSE IF x < SCALE THEN LnNorm(x * 2, k - 1)
    ELSE k * 6931 + Atanh2(((x - SCALE) * SCALE) \div (x + SCALE))

Ln(x) == LnNorm(x, 0)

\* math.pow(x, y) for x >= 0 (a negative base with a fractional exponent
\* raises ValueError and is handled by the callers)
Pow(x, y) ==
    IF x = 0 THEN (IF y = 0 THEN SCALE ELSE 0)
    ELSE Exp(Mul(y, Ln(x)))

(***************************************************************************)
(* models.py                                                               *)
(***************************************************************************)
\* class Rating(int, Enum)
AGAIN == 1
HARD == 2
GOOD == 3
EASY == 4

Ratings == {AGAIN, HARD, GOOD, EASY}

\* Python's None for an Optional[datetime] (timestamps are >= 0)
None == 0 - 1

\* a Card as its constructor leaves it: the field defaults of class Card
\* (id stands for the uuid4 the default factory draws; created_at, which
\* nothing reads after construction, is left out)
Card(id, card_type, question, answer, concept, tags) ==
    [ id |-> id, card_type |-> card_type, question |-> question, answer |-> answer,
      concept |-> concept, tags |-> tags,
      due |-> None, stability |-> 0, difficulty |-> 0, elapsed_days |-> 0,
      scheduled_days |-> 0, reps |-> 0, lapses |-> 0, state |-> "new",
      last_review |-> None, reviews |-> << >> ]

(***************************************************************************)
(* fsrs.py: class FSRS.  A scheduler is the record of its constructor's   *)
(* arguments; w[i] of the code is W(self, i).                              *)
(***************************************************************************)
\* the default parameters of FSRS.__init__
DefaultW ==
    << 4072, 11829, 31262, 154722,
       72102, 5316, 10651, 234,
       16160, 1544, 10824, 19813,
       953, 2975, 22042, 2407,
       29466, 5034, 6567 >>

FSRS(w, enable_fuzz, maximum_interval, desired_retention) ==
    [ w |-> IF w = << >> THEN DefaultW ELSE w,
      enable_fuzz |-> enable_fuzz,
      maximum_interval |-> maximum_interval,
      desired_retention |-> desired_retention ]

\* FSRS(): every argument at its default
DefaultFSRS == FSRS(<< >>, FALSE, 36500, 9000)

W(self, i) == self.w[i + 1]

initial_stability == 5000

initial_difficulty == 5 * SCALE

init_stability(self, rating) == W(self, rating - 1)

\* _init_difficulty reading w[0] where line 87 reads w[4]
init_difficulty_from_w0(self, rating) ==
    Max2(Fx(1, 0), Min2(Fx(10, 0), W(self, 0) - (rating - 3) * W(self, 5)))

init_difficulty(self, rating) ==
    Max2(Fx(1, 0), Min2(Fx(10, 0), W(self, 4) - (rating - 3) * W(self, 5)))

mean_reversion(self, init, current) ==
    Mul(W(self, 7), init) + Mul(SCALE - W(self, 7), current)

\* next_difficulty without the clamp to [1, 10]
next_difficulty_unclamped(self, d, rating) ==
    mean_reversion(self, W(self, 4), d - W(self, 6) * (rating - 3))

next_difficulty(self, d, rating) ==
    LET next_d == d - W(self, 6) * (rating - 3)
    IN  Max2(Fx(1, 0), Min2(Fx(10, 0), mean_reversion(self, W(self, 4), next_d)))

\* math.exp(-elapsed_days / s) for s > 0; below e^-10 it is 0 to four decimals
Retrievability(s, elapsed_days) ==
    IF elapsed_days \div s >= 10 THEN 0
    ELSE Exp(0 - Div(elapsed_days, s))

\* math.exp(-elapsed_days / s) for s < 0, elapsed_days >= 0: the argument
\* is positive
RetrievabilityNeg(s, elapsed_days) ==
    IF elapsed_days \div (0 - s) >= 9 THEN Exp(9 * SCALE)
    ELSE Exp(Div(elapsed_days, 0 - s))

\* whether _next_stability raises: ZeroDivisionError at s = 0; for s < 0,
\* OverflowError from math.exp beyond e^709, ValueError from math.pow of a
\* negative base with a fractional exponent
next_stability_raises(self, s, d, rating, elapsed_days) ==
    \/ s = 0
    \/ /\ s < 0
       /\ \/ elapsed_days \div 710 >= 0 - s
          \/ rating = AGAIN /\ s + SCALE < 0 /\ W(self, 13) % SCALE # 0
          \/ rating # AGAIN /\ W(self, 9) % SCALE # 0

next_stability(self, s, d, rating, elapsed_days) ==
    LET retrievability == IF s > 0 THEN Retrievability(s, elapsed_days)
                          ELSE RetrievabilityNeg(s, elapsed_days)
        s_recall == Mul(Mul(Mul(W(self, 11), Pow(d, 0 - W(self, 12))),
                            Pow(s + SCALE, W(self, 13)) - SCALE),
                        Exp(0 - Mul(retrievability, W(self, 14))))
        growth == Mul(Mul(Mul(Exp(W(self, 8)), Fx(11, 0) - d),
                          Pow(s, 0 - W(self, 9))),
                      Exp(Mul(SCALE - retrievability, W(self, 10))) - SCALE)
        next_s == IF rating = AGAIN THEN Mul(s, SCALE + Mul(s_recall, W(self, 15)))
                  ELSE IF rating = HARD THEN Mul(s, SCALE + Mul(growth, W(self, 16)))
                  ELSE IF rating = GOOD THEN Mul(s, SCALE + growth)
                  ELSE Mul(s, SCALE + Mul(growth, W(self, 17)))
    IN  Max2(1000, next_s)

next_interval(self, stability, rating) ==
    IF rating = AGAIN THEN Max2(Fx(1, 0), Mul(stability, 2000))
    ELSE Mul(stability, Div(SCALE, self.desired_retention) - SCALE)

\* the values random.randint(int(interval * 0.95), int(interval * 1.05)) can
\* return, as fixed-point days
apply_fuzz(interval) ==
    LET min_interval == IntPart(Mul(interval, 9500))
        max_interval == IntPart(Mul(interval, 10500))
    IN  { Fx(n, 0) : n \in min_interval .. max_interval }

\* review_begin without card.reps += 1
review_begin_no_reps(card, now) ==
    [card EXCEPT !.elapsed_days = IF card.last_review # None
                                  THEN now - card.last_review ELSE 0,
                 !.last_review = now]

\* lines 40-47 of FSRS.review: elapsed_days, last_review, reps
review_begin(card, now) ==
    LET elapsed_days == IF card.last_review # None THEN now - card.last_review
                        ELSE 0
    IN  [card EXCEPT !.elapsed_days = elapsed_days,
                     !.last_review = now,
                     !.reps = card.reps + 1]

\* review_state with rating <= Rating.EASY for rating < Rating.EASY
review_state_easy_learning(card, rating) ==
    IF card.state = "new"
    THEN [card EXCEPT !.state = IF rating <= EASY THEN "learning" ELSE "review"]
    ELSE IF rating = AGAIN
    THEN [card EXCEPT !.state = "relearning", !.lapses = card.lapses + 1]
    ELSE card

\* review_state with a new card rated AGAIN left new
review_state_again_stays_new(card, rating) ==
    IF card.state = "new" /\ rating # AGAIN
    THEN [card EXCEPT !.state = IF rating < EASY THEN "learning" ELSE "review"]
    ELSE IF card.state # "new" /\ rating = AGAIN
    THEN [card EXCEPT !.state = "relearning", !.lapses = card.lapses + 1]
    ELSE card

\* review_state without card.lapses += 1
review_state_no_lapse(card, rating) ==
    IF card.state = "new"
    THEN [card EXCEPT !.state = IF rating < EASY THEN "learning" ELSE "review"]
    ELSE IF rating = AGAIN
    THEN [card EXCEPT !.state = "relearning"]
    ELSE card

\* review_state with a graduation step: EASY moves a learning or
\* relearning card to review
review_state_graduates(card, rating) ==
    IF card.state = "new"
    THEN [card EXCEPT !.state = IF rating < EASY THEN "learning" ELSE "review"]
    ELSE IF rating = AGAIN
    THEN [card EXCEPT !.state = "relearning", !.lapses = card.lapses + 1]
    ELSE IF rating = EASY
    THEN [card EXCEPT !.state = "review"]
    ELSE card

\* lines 49-54 of FSRS.review: the state transition (rating is compared as
\* an integer, so the comparison is defined for any integer)
review_state(card, rating) ==
    IF card.state = "new"
    THEN [card EXCEPT !.state = IF rating < EASY THEN "learning" ELSE "review"]
    ELSE IF rating = AGAIN
    THEN [card EXCEPT !.state = "relearning", !.lapses = card.lapses + 1]
    ELSE card

\* lines 69-78 of FSRS.review: interval, clamp, fuzz, due.  A set: one card
\* for each value the random draw can return.
review_schedule(self, card, rating, now) ==
    LET interval == next_interval(self, card.stability, rating)
        scheduled_days == Min2(interval, Fx(self.maximum_interval, 0))
        fuzzed == IF self.enable_fuzz /\ card.state = "review"
                  THEN apply_fuzz(scheduled_days)
                  ELSE {scheduled_days}
    IN  { [card EXCEPT !.scheduled_days = sd, !.due = now + sd] : sd \in fuzzed }

\* FSRS.review(card, rating) at clock reading now: the set of outcomes, each
\* the card as the call leaves it and whether the call raised.  rating.value
\* exists only for a member of Rating (AttributeError otherwise), and it is
\* first read at line 58 or line 61, after lines 45-54 have assigned.
review(self, card, rating, now) ==
    LET elapsed_days == review_begin(card, now).elapsed_days
        c2 == review_state(review_begin(card, now), rating)
    IN  IF rating \notin Ratings
        THEN { [card |-> c2, raised |-> TRUE] }
        ELSE IF c2.state = "new" \/ c2.reps = 1
        THEN { [card |-> c, raised |-> FALSE] :
                 c \in review_schedule(self,
                          [c2 EXCEPT !.stability = init_stability(self, rating),
                                     !.difficulty = init_difficulty(self, rating)],
                          rating, now) }
        ELSE LET c3 == [c2 EXCEPT !.difficulty = next_difficulty(self, c2.difficulty, rating)]
             IN  IF next_stability_raises(self, c3.stability, c3.difficulty, rating, elapsed_days)
                 THEN { [card |-> c3, raised |-> TRUE] }
                 ELSE { [card |-> c, raised |-> FALSE] :
                          c \in review_schedule(self,
                                   [c3 EXCEPT !.stability =
                                        next_stability(self, c3.stability, c3.difficulty,
                                                       rating, elapsed_days)],
                                   rating, now) }

(***************************************************************************)
(* State                                                                   *)
(***************************************************************************)
VARIABLES
    fsrs,      \* SpacedRepetitionServer.fsrs: the scheduler
    cards,     \* CardStorage.cards: the dict, as its cards in insertion order
    now,       \* the clock, datetime.now(timezone.utc)
    issued,    \* how many card ids have been generated
    result,    \* the last call: its arguments, what it returned or raised, and
               \* (field before) the cards as they were when it was made
    pipelined, \* whether the client sends a call before the last has answered
    disk,      \* the text of the file at CardStorage.storage_path
    saves      \* the _save_cards coroutines suspended at an await, each with
               \* its cards_data and the await it is at

vars == << fsrs, cards, now, issued, result, pipelined, disk, saves >>

\* bounds of the model
MaxCards == 2
MaxReviews == 2
MaxTicks == 1
TickDays == 30
MaxInFlight == 2

(***************************************************************************)
(* storage.py: class CardStorage                                           *)
(***************************************************************************)
Ids(cs) == { cs[i].id : i \in 1 .. Len(cs) }

\* CardStorage.get_card: self.cards.get(card_id); only called for a key
\* that is present
get_card(cs, card_id) == cs[CHOOSE i \in 1 .. Len(cs) : cs[i].id = card_id]

\* self.cards[card.id] = card: a new key goes last, a present key keeps its
\* place in the dict
dict_set(cs, card) ==
    IF card.id \in Ids(cs)
    THEN [i \in 1 .. Len(cs) |-> IF cs[i].id = card.id THEN card ELSE cs[i]]
    ELSE Append(cs, card)

\* del self.cards[card_id]
dict_del(cs, card_id) == SelectSeq(cs, LAMBDA c : c.id # card_id)

\* CardStorage.add_card
storage_add_card(cs, card) == dict_set(cs, card)

\* CardStorage.update_card
storage_update_card(cs, card) ==
    IF card.id \in Ids(cs) THEN dict_set(cs, card) ELSE cs

\* CardStorage.remove_card: the dict after the call
storage_remove_card(cs, card_id) ==
    IF card_id \in Ids(cs) THEN dict_del(cs, card_id) ELSE cs

\* json.dumps(cards_data, indent=2), line 50: the text as a sequence of
\* units, one for each card with what follows it ("," or the closing "]");
\* the text "[]" of the empty list is one unit without a card.  A unit
\* stands for the same stretch of the file whichever card it holds.
json_dumps(cards_data) ==
    IF cards_data = << >>
    THEN << [card |-> << >>, last |-> TRUE] >>
    ELSE [i \in 1 .. Len(cards_data) |->
            [card |-> << cards_data[i] >>, last |-> i = Len(cards_data)]]

\* f.write(text) through a handle opened with 'w' and positioned at 0: the
\* text replaces the start of the file and leaves what lies beyond it
file_write(file, text) == text \o SubSeq(file, Len(text) + 1, Len(file))

\* CardStorage._save_cards as it is reached by a tool call (called is
\* whether the call reaches it at all).  Line 47 takes cards_data from the
\* dict as it is, cs, before the first await.  When the client waits for
\* each answer, the open and the write are over before the next call; when
\* it does not, the coroutine stays suspended at the open.
save_cards(called, cs) ==
    IF ~called
    THEN UNCHANGED << disk, saves >>
    ELSE IF pipelined
    THEN /\ Len(saves) < MaxInFlight
         /\ saves' = Append(saves, [cards_data |-> cs, at |-> "open"])
         /\ disk' = disk
    ELSE /\ disk' = file_write(<< >>, json_dumps(cs))
         /\ saves' = saves

\* due_key without the new-cards-first component
due_key_by_due_only(c) == << 0, c.due >>

\* the sort key of get_due_cards:
\* (0 if c.state == "new" else 1, c.due or datetime.min); None stands below
\* every timestamp, as datetime.min does
due_key(c) == << IF c.state = "new" THEN 0 ELSE 1, c.due >>

\* tuple comparison k1 < k2
key_less(k1, k2) == k1[1] < k2[1] \/ (k1[1] = k2[1] /\ k1[2] < k2[2])

\* list.sort(key=due_key): a stable sort, here by insertion from the left
RECURSIVE insert_sorted(_, _)
insert_sorted(sorted, c) ==
    IF sorted = << >> THEN << c >>
    ELSE IF key_less(due_key(c), due_key(sorted[Len(sorted)]))
    THEN Append(insert_sorted(SubSeq(sorted, 1, Len(sorted) - 1), c),
                sorted[Len(sorted)])
    ELSE Append(sorted, c)

RECURSIVE sort_due(_)
sort_due(cs) ==
    IF cs = << >> THEN << >>
    ELSE insert_sorted(sort_due(SubSeq(cs, 1, Len(cs) - 1)), cs[Len(cs)])

\* the filter of get_due_cards: new cards are always due
is_due(card, t) == card.state = "new" \/ (card.due # None /\ card.due <= t)

\* due_cards[:limit], a Python slice: a negative limit counts from the end
slice_to(s, limit) ==
    LET n == IF limit >= 0 THEN Min2(limit, Len(s)) ELSE Max2(Len(s) + limit, 0)
    IN  SubSeq(s, 1, n)

\* CardStorage.get_due_cards
get_due_cards(cs, limit, t) ==
    slice_to(sort_due(SelectSeq(cs, LAMBDA c : is_due(c, t))), limit)

(***************************************************************************)
(* server.py: class SpacedRepetitionServer.  A tool's arguments are a     *)
(* Python dict, here a function from the keys present to their values.     *)
(***************************************************************************)
\* args.get(key): None for an absent key
Get(args, key) == IF key \in DOMAIN args THEN args[key] ELSE "None"

\* "not value" for a string argument
Falsy(value) == value = "None" \/ value = ""

\* lines 190-198 of _add_card: the scheduling fields of a fresh card
init_scheduling(card, t) ==
    [card EXCEPT !.stability = initial_stability,
                 !.difficulty = initial_difficulty,
                 !.elapsed_days = 0,
                 !.scheduled_days = 0,
                 !.reps = 0,
                 !.lapses = 0,
                 !.state = "new",
                 !.due = t]

\* the card _add_card builds from its arguments (lines 172-198)
new_card(id, args, t) ==
    init_scheduling(
        IF args["card_type"] = "fact"
        THEN Card(id, "fact", args["question"], args["answer"], "None",
                  IF "tags" \in DOMAIN args THEN args["tags"] ELSE << >>)
        ELSE Card(id, "concept", "None", "None", args["concept"],
                  IF "tags" \in DOMAIN args THEN args["tags"] ELSE << >>),
        t)

\* whether _add_card returns an error instead of building a card
add_card_rejects(args) ==
    IF args["card_type"] = "fact"
    THEN Falsy(Get(args, "question")) \/ Falsy(Get(args, "answer"))
    ELSE Falsy(Get(args, "concept"))

\* SpacedRepetitionServer._add_card
AddCard(args) ==
    IF add_card_rejects(args)
    THEN /\ result' = [op |-> "add_card", ret |-> "error"]
         /\ save_cards(FALSE, cards)
         /\ UNCHANGED << fsrs, pipelined, cards, now, issued >>
    ELSE /\ issued < MaxCards
         /\ cards' = storage_add_card(cards, new_card(issued + 1, args, now))
         /\ issued' = issued + 1
         /\ result' = [op |-> "add_card", ret |-> "success", card_id |-> issued + 1]
         /\ save_cards(TRUE, cards')
         /\ UNCHANGED << fsrs, pipelined, now >>

\* SpacedRepetitionServer._remove_card; card_id 0 stands for a missing or
\* empty card_id
RemoveCard(card_id) ==
    /\ cards' = IF card_id = 0 THEN cards ELSE storage_remove_card(cards, card_id)
    /\ result' = [op |-> "remove_card",
                  ret |-> IF card_id # 0 /\ card_id \in Ids(cards)
                          THEN "success" ELSE "error"]
    /\ save_cards(card_id # 0 /\ card_id \in Ids(cards), cards')
    /\ UNCHANGED << fsrs, pipelined, now, issued >>

\* SpacedRepetitionServer._get_next_due_card
GetNextDueCard(limit) ==
    /\ result' = [op |-> "get_next_due_card", limit |-> limit,
                  cards |-> get_due_cards(cards, limit, now)]
    /\ UNCHANGED << fsrs, pipelined, cards, now, issued, disk, saves >>

\* update_fields building a fresh Card from the old content and the
\* arguments, which drops the schedule
update_fields_rebuild(card, args) ==
    Card(card.id, card.card_type,
         IF "question" \in DOMAIN args /\ card.card_type = "fact"
         THEN args["question"] ELSE card.question,
         IF "answer" \in DOMAIN args /\ card.card_type = "fact"
         THEN args["answer"] ELSE card.answer,
         IF "concept" \in DOMAIN args /\ card.card_type = "concept"
         THEN args["concept"] ELSE card.concept,
         IF "tags" \in DOMAIN args THEN args["tags"] ELSE card.tags)

\* lines 257-269 of _update_card: the card with the content fields assigned
update_fields(card, args) ==
    LET c1 == IF "question" \in DOMAIN args /\ card.card_type = "fact"
              THEN [card EXCEPT !.question = args["question"]] ELSE card
        c2 == IF "answer" \in DOMAIN args /\ card.card_type = "fact"
              THEN [c1 EXCEPT !.answer = args["answer"]] ELSE c1
        c3 == IF "concept" \in DOMAIN args /\ card.card_type = "concept"
              THEN [c2 EXCEPT !.concept = args["concept"]] ELSE c2
    IN  IF "tags" \in DOMAIN args THEN [c3 EXCEPT !.tags = args["tags"]] ELSE c3

\* the list updated_fields of _update_card, as a set
updated_fields(card, args) ==
    { f \in {"question", "answer"} : f \in DOMAIN args /\ card.card_type = "fact" }
    \cup { f \in {"concept"} : f \in DOMAIN args /\ card.card_type = "concept" }
    \cup { f \in {"tags"} : f \in DOMAIN args }

\* SpacedRepetitionServer._update_card
UpdateCard(args) ==
    LET card_id == args["card_id"]
    IN  /\ IF card_id = 0 \/ card_id \notin Ids(cards)
           THEN /\ cards' = cards
                /\ result' = [op |-> "update_card", ret |-> "error", before |-> cards]
           ELSE IF updated_fields(get_card(cards, card_id), args) = {}
           THEN /\ cards' = cards
                /\ result' = [op |-> "update_card", ret |-> "error", before |-> cards]
           ELSE /\ cards' = storage_update_card(cards,
                                update_fields(get_card(cards, card_id), args))
                /\ result' = [op |-> "update_card", ret |-> "success", before |-> cards,
                              card_id |-> card_id]
        /\ save_cards(card_id # 0 /\ card_id \in Ids(cards)
                         /\ updated_fields(get_card(cards, card_id), args) # {},
                      cards')
        /\ UNCHANGED << fsrs, pipelined, now, issued >>

\* the reviews the stored cards have been through: the model stops
\* scheduling at MaxReviews of them
RECURSIVE TotalReps(_)
TotalReps(cs) ==
    IF cs = << >> THEN 0 ELSE cs[1].reps + TotalReps(Tail(cs))

\* Review(card_id=card_id, rating=rating, reviewed_at=datetime.now(timezone.utc))
Review(card_id, rating, t) == [card_id |-> card_id, rating |-> rating, reviewed_at |-> t]

\* whether _review_card returns an error before it calls the scheduler
\* (lines 283-298); rating_value 0 stands for a missing rating too
review_card_rejects(card_id, rating_value) ==
    \/ card_id = 0
    \/ rating_value = 0
    \/ card_id \notin Ids(cards)
    \/ rating_value \notin Ratings

\* SpacedRepetitionServer._review_card.  A call the scheduler raises in
\* leaves the card as the scheduler left it: the dict holds the very object
\* the scheduler assigned to, and handle_call_tool catches the exception.
ReviewCard(card_id, rating_value) ==
    /\ IF review_card_rejects(card_id, rating_value)
       THEN /\ cards' = cards
            /\ result' = [op |-> "review_card", ret |-> "error", raised |-> FALSE]
            /\ save_cards(FALSE, cards)
       ELSE LET card == get_card(cards, card_id)
            IN  /\ TotalReps(cards) < MaxReviews
                /\ \E o \in review(fsrs, card, rating_value, now) :
                      /\ cards' = IF o.raised THEN dict_set(cards, o.card)
                                  ELSE storage_update_card(cards,
                                         [o.card EXCEPT !.reviews =
                                            Append(o.card.reviews,
                                                   Review(card_id, rating_value, now))])
                      /\ result' = [op |-> "review_card",
                                    ret |-> IF o.raised THEN "Error" ELSE "success",
                                    raised |-> o.raised, card_id |-> card_id,
                                    rating |-> rating_value, before |-> card]
                      /\ save_cards(~o.raised, cards')
    /\ UNCHANGED << fsrs, pipelined, now, issued >>

\* time passes between two tool calls
Tick ==
    /\ now < MaxTicks * TickDays * SCALE
    /\ now' = now + TickDays * SCALE
    /\ result' = [op |-> "tick"]
    /\ UNCHANGED << fsrs, pipelined, cards, issued, disk, saves >>

\* the argument dicts the tools are called with
AddArgs ==
    { [card_type |-> "fact", question |-> "q0", answer |-> "a0"],
      [card_type |-> "fact", question |-> "q0"],
      [card_type |-> "concept", concept |-> "c0", tags |-> << "t0" >>],
      [card_type |-> "concept", concept |-> ""] }

CardIdArgs == 0 .. MaxCards

UpdateArgs ==
    UNION { { [card_id |-> id, question |-> "q1", concept |-> "c1", tags |-> << "t1" >>],
              [card_id |-> id, answer |-> "a1"],
              [card_id |-> id] } : id \in CardIdArgs }

RatingArgs == 0 .. 5

LimitArgs == {0 - 1, 0, 1, MaxCards}


Init ==
    /\ fsrs = DefaultFSRS
    /\ cards = << >>
    /\ now = 0
    /\ issued = 0
    /\ result = [op |-> "run"]
    /\ pipelined = FALSE
    /\ disk = json_dumps(<< >>)
    /\ saves = << >>

\* the client waits for each answer (pipelined is FALSE), so
\* handle_call_tool runs one tool call at a time, its save included
Next ==
    \/ \E args \in AddArgs : AddCard(args)
    \/ \E card_id \in CardIdArgs : RemoveCard(card_id)
    \/ \E limit \in LimitArgs : GetNextDueCard(limit)
    \/ \E args \in UpdateArgs : UpdateCard(args)
    \/ \E card_id \in CardIdArgs, rating \in RatingArgs : ReviewCard(card_id, rating)
    \/ Tick

Spec == Init /\ [][Next]_vars

(***************************************************************************)
(* The scheduler on its own: FSRS constructed with any arguments, and      *)
(* called directly on a card that add_card made or that _load_cards read   *)
(* from the file.                                                          *)
(***************************************************************************)
\* a weight vector other than the default: w[0] and w[4] are small
CustomW == [DefaultW EXCEPT ![1] = 500, ![5] = 5000]

Schedulers ==
    { FSRS(w, enable_fuzz, maximum_interval, 9000) :
        w \in {<< >>, CustomW},
        enable_fuzz \in BOOLEAN,
        maximum_interval \in {20, 36500} }

\* CardStorage._load_cards, lines 27-43: the file's cards are validated for
\* their types only, so any field values come back.  The cards the model
\* reads: reviewed once, with a stability of 0, of -2 or of 2.
LoadedCards ==
    { [Card(MaxCards + 1, "fact", "q0", "a0", "None", << >>)
         EXCEPT !.state = state, !.stability = stability,
                !.difficulty = 5 * SCALE, !.reps = 1, !.due = 0,
                !.last_review = 0,
                !.reviews = << Review(MaxCards + 1, GOOD, 0) >>] :
        state \in {"learning", "review"},
        stability \in {0, 0 - 2 * SCALE, 2 * SCALE} }

LoadCards(card) ==
    /\ cards = << >>
    /\ cards' = << card >>
    /\ result' = [op |-> "load_cards"]
    /\ disk' = json_dumps(<< card >>)
    /\ UNCHANGED << fsrs, pipelined, now, issued, saves >>

\* one card at a time is in the caller's hands
AddOneCard(args) ==
    /\ cards = << >>
    /\ AddCard(args)

\* FSRS.review(card, rating) called directly: the card is assigned to in
\* place, whether or not the call raises
DirectReview(rating) ==
    /\ cards # << >>
    /\ TotalReps(cards) < MaxReviews
    /\ \E o \in review(fsrs, cards[1], rating, now) :
          /\ cards' = dict_set(cards, o.card)
          /\ result' = [op |-> "review", raised |-> o.raised, card_id |-> cards[1].id,
                        rating |-> rating, before |-> cards[1]]
    /\ UNCHANGED << fsrs, pipelined, now, issued, disk, saves >>

SchedInit ==
    /\ fsrs \in Schedulers
    /\ cards = << >>
    /\ now = 0
    /\ issued = 0
    /\ result = [op |-> "run"]
    /\ pipelined = FALSE
    /\ disk = json_dumps(<< >>)
    /\ saves = << >>

SchedNext ==
    \/ \E args \in AddArgs : AddOneCard(args)
    \/ \E card \in LoadedCards : LoadCards(card)
    \/ \E rating \in RatingArgs : DirectReview(rating)
    \/ \E card_id \in CardIdArgs \cup {MaxCards + 1}, rating \in RatingArgs :
          ReviewCard(card_id, rating)
    \/ Tick

SchedSpec == SchedInit /\ [][SchedNext]_vars

(***************************************************************************)
(* The server with a client that does not wait: handle_call_tool runs a    *)
(* call up to its first suspension, which is the open inside _save_cards;  *)
(* the other handlers run while the coroutine is suspended.                *)
(***************************************************************************)
\* line 49: aiofiles.open(self.storage_path, 'w') completes for the i-th
\* suspended coroutine; mode 'w' truncates the file
SaveOpen(i) ==
    /\ i \in 1 .. Len(saves)
    /\ saves[i].at = "open"
    /\ disk' = << >>
    /\ saves' = [saves EXCEPT ![i].at = "write"]
    /\ UNCHANGED << fsrs, pipelined, cards, now, issued, result >>

\* line 50: f.write(json.dumps(cards_data, indent=2)) and the close that
\* leaves the async with block complete for the i-th suspended coroutine;
\* _save_cards returns and the tool call answers
SaveWrite(i) ==
    /\ i \in 1 .. Len(saves)
    /\ saves[i].at = "write"
    /\ disk' = file_write(disk, json_dumps(saves[i].cards_data))
    /\ saves' = SubSeq(saves, 1, i - 1) \o SubSeq(saves, i + 1, Len(saves))
    /\ UNCHANGED << fsrs, pipelined, cards, now, issued, result >>

\* SpacedRepetitionServer.run: initialize() has written the file of a
\* fresh storage path before the first call is read
SaveInit ==
    /\ fsrs = DefaultFSRS
    /\ cards = << >>
    /\ now = 0
    /\ issued = 0
    /\ result = [op |-> "run"]
    /\ pipelined = TRUE
    /\ disk = json_dumps(<< >>)
    /\ saves = << >>

\* the calls the client pipelines: add a fact card, remove a card, give a
\* card another answer, rate a card GOOD or with a value that is no rating
SaveAddArgs == { args \in AddArgs : args["card_type"] = "fact" /\ ~add_card_rejects(args) }

SaveUpdateArgs == { args \in UpdateArgs : DOMAIN args = {"card_id", "answer"} }

SaveRatingArgs == {0, GOOD}

SaveNext ==
    \/ \E args \in SaveAddArgs : AddCard(args)
    \/ \E card_id \in CardIdArgs : RemoveCard(card_id)
    \/ \E args \in SaveUpdateArgs : UpdateCard(args)
    \/ \E card_id \in CardIdArgs, rating \in SaveRatingArgs : ReviewCard(card_id, rating)
    \/ \E i \in 1 .. MaxInFlight : SaveOpen(i)
    \/ \E i \in 1 .. MaxInFlight : SaveWrite(i)

SaveSpec == SaveInit /\ [][SaveNext]_vars

(* Properties                                                              *)
(***************************************************************************)
\* the last call was a review the scheduler took part in (result.before is
\* the card as it was handed to FSRS.review)
Reviewed == result.op \in {"review", "review_card"} /\ "before" \in DOMAIN result

\* ... and FSRS.review returned
ReviewReturned == Reviewed /\ ~result.raised

\* the card the last review was about, as it is now
ReviewedCard == get_card(cards, result.card_id)

\* the cards add_card created (a card read from the file has another id)
AddedCards == { cards[i] : i \in { j \in 1 .. Len(cards) : cards[j].id <= issued } }

\* C1: a review moves a new card to learning for AGAIN, HARD or GOOD and to
\* review for EASY; it moves a card that is not new to relearning for AGAIN
\* and leaves its state alone for HARD, GOOD or EASY.
C1_StateTransition ==
    ReviewReturned =>
        ReviewedCard.state =
            IF result.before.state = "new"
            THEN (IF result.rating \in {AGAIN, HARD, GOOD} THEN "learning" ELSE "review")
            ELSE IF result.rating = AGAIN THEN "relearning"
            ELSE result.before.state

\* a card in state review has just been rated AGAIN and is relearning
C1_Witness ==
    /\ ReviewReturned
    /\ result.before.state = "review"
    /\ result.rating = AGAIN
    /\ ReviewedCard.state = "relearning"

\* C2: after every review, whatever the scheduler's configuration,
\* scheduled_days <= maximum_interval.
C2_ScheduledWithinMaximum ==
    ReviewReturned => ReviewedCard.scheduled_days <= Fx(fsrs.maximum_interval, 0)

\* C3: a review call that fails leaves the card as it was before the call.
C3_FailedReviewLeavesCard ==
    (Reviewed /\ result.raised) => ReviewedCard = result.before

\* C4: a card created by add_card has stability >= 0.1 after its creation
\* and after every review, under any weight vector.
C4_StabilityFloor ==
    \A c \in AddedCards : c.stability >= 1000

\* C5: a card created by add_card has 1 <= difficulty <= 10 after its
\* creation and after every review.
C5_DifficultyClamped ==
    \A c \in AddedCards : Fx(1, 0) <= c.difficulty /\ c.difficulty <= Fx(10, 0)

\* a second review has driven the difficulty of an added card to the upper
\* end of the range
C5_Witness ==
    /\ ReviewReturned
    /\ result.before.reps = 1
    /\ ReviewedCard \in AddedCards
    /\ ReviewedCard.difficulty = Fx(10, 0)

\* C6: every stored card has as many review records as reps, whether the
\* review_card calls made so far succeeded or failed.
C6_ReviewsMatchReps ==
    \A i \in 1 .. Len(cards) : Len(cards[i].reviews) = cards[i].reps

\* a review_card call has just failed while a card reviewed twice is stored
C6_Witness ==
    /\ result.op = "review_card"
    /\ result.ret = "error"
    /\ \E i \in 1 .. Len(cards) : cards[i].reps = 2 /\ Len(cards[i].reviews) = 2

\* a card that is not new stays not new over a step
StaysNotNew ==
    \A i \in 1 .. Len(cards), j \in 1 .. Len(cards') :
        (cards[i].id = cards'[j].id /\ cards[i].state # "new")
            => cards'[j].state # "new"

\* C7: a stored card is new exactly when its reps is 0, and once it is not
\* new no step makes it new again.
C7_NewIffNoReps ==
    /\ [](\A i \in 1 .. Len(cards) : (cards[i].state = "new") <=> (cards[i].reps = 0))
    /\ [][StaysNotNew]_vars

\* a first review has just moved a card out of state new
C7_Witness ==
    /\ ReviewReturned
    /\ result.before.state = "new"
    /\ ReviewedCard.reps = 1
    /\ ReviewedCard.state # "new"

\* no card's lapses goes down over a step
LapsesNeverDecrease ==
    \A i \in 1 .. Len(cards), j \in 1 .. Len(cards') :
        cards[i].id = cards'[j].id => cards'[j].lapses >= cards[i].lapses

\* C8: AGAIN on a card that is not new adds exactly 1 to lapses, and no step
\* lowers lapses.
C8_LapsesCount ==
    /\ []((ReviewReturned /\ result.before.state # "new" /\ result.rating = AGAIN)
            => ReviewedCard.lapses = result.before.lapses + 1)
    /\ [][LapsesNeverDecrease]_vars

\* a card that is not new has just been rated AGAIN for the first time
C8_Witness ==
    /\ ReviewReturned
    /\ result.before.state # "new"
    /\ result.rating = AGAIN
    /\ ReviewedCard.lapses = 1

\* the due set: the stored cards that are new or have due <= now
DueSet ==
    { cards[i] : i \in { j \in 1 .. Len(cards) :
                           cards[j].state = "new"
                           \/ (cards[j].due # None /\ cards[j].due <= now) } }

\* a comes strictly before b in the order of the due-card query
ComesBefore(a, b) ==
    \/ a.state = "new" /\ b.state # "new"
    \/ a.state # "new" /\ b.state # "new" /\ a.due < b.due

\* C9: get_due_cards(limit) returns at most limit cards (limit >= 0), all of
\* the due set and none twice, every new card before every other card, the
\* other cards by ascending due, and no due card left out comes before a
\* returned one.
C9_DueOrder ==
    result.op = "get_next_due_card" =>
        LET r == result.cards
        IN  /\ result.limit >= 0 => Len(r) <= result.limit
            /\ \A i \in 1 .. Len(r) : r[i] \in DueSet
            /\ \A i, j \in 1 .. Len(r) :
                 i < j => /\ r[i].id # r[j].id
                          /\ ~(r[i].state # "new" /\ r[j].state = "new")
                          /\ (r[i].state # "new" /\ r[j].state # "new")
                                => r[i].due <= r[j].due
            /\ \A c \in DueSet :
                 (\A i \in 1 .. Len(r) : r[i].id # c.id)
                    => \A i \in 1 .. Len(r) : ~ComesBefore(c, r[i])

\* two reviewed cards are due, the one stored second is due first, and a
\* query with limit 1 has returned it
C9_Witness ==
    /\ result.op = "get_next_due_card"
    /\ result.limit = 1
    /\ Len(result.cards) = 1
    /\ Cardinality(DueSet) = 2
    /\ \A c \in DueSet : c.state # "new"
    /\ result.cards[1] = cards[2]
    /\ cards[2].due < cards[1].due

\* the scheduling state and review history of a card
Scheduling(c) ==
    << c.state, c.stability, c.difficulty, c.due, c.elapsed_days,
       c.scheduled_days, c.reps, c.lapses, c.last_review, c.reviews >>

\* C10: update_card leaves every card's scheduling state and review history
\* as they were, and every other stored card entirely as it was.
C10_UpdateKeepsSchedule ==
    result.op = "update_card" =>
        /\ Len(cards) = Len(result.before)
        /\ \A i \in 1 .. Len(cards) :
             /\ cards[i].id = result.before[i].id
             /\ Scheduling(cards[i]) = Scheduling(result.before[i])
             /\ (result.ret = "error" \/ cards[i].id # result.card_id)
                   => cards[i] = result.before[i]

\* update_card has just changed the content of a reviewed card while another
\* card is stored
C10_Witness ==
    /\ result.op = "update_card"
    /\ result.ret = "success"
    /\ Len(cards) = 2
    /\ \E i \in 1 .. 2 :
         /\ cards[i].id = result.card_id
         /\ cards[i].reps >= 1
         /\ cards[i] # result.before[i]

\* the last call was the first review of a new card, rated GOOD, and the
\* scheduler returned
FirstReviewGood ==
    /\ ReviewReturned
    /\ result.before.state = "new"
    /\ result.rating = GOOD

\* C11 as stated: reviewing a new card with rating GOOD under the default
\* configuration gives state review, reps 1, stability w[2] = 3.1262 and
\* difficulty 1.
C11_FirstGoodAsStated ==
    FirstReviewGood =>
        /\ ReviewedCard.state = "review"
        /\ ReviewedCard.reps = 1
        /\ ReviewedCard.stability = W(fsrs, 2)
        /\ ReviewedCard.stability = Fx(3, 1262)
        /\ ReviewedCard.difficulty = Fx(1, 0)

\* C11, amended: reviewing a new card with rating GOOD under the default
\* configuration gives state learning (GOOD is below EASY), reps 1,
\* stability w[2] = 3.1262 and difficulty w[4] - 0 * w[5] = 7.2102, which
\* the clamp to [1, 10] leaves alone.
C11_FirstGood ==
    FirstReviewGood =>
        /\ ReviewedCard.state = "learning"
        /\ ReviewedCard.reps = 1
        /\ ReviewedCard.stability = W(fsrs, 2)
        /\ ReviewedCard.stability = Fx(3, 1262)
        /\ ReviewedCard.difficulty = Fx(7, 2102)

\* a new card has just had its first review, rated GOOD
C11_Witness ==
    /\ FirstReviewGood
    /\ ReviewedCard.reps = 1
    /\ Len(ReviewedCard.reviews) = 1

\* the last call was a review of a card that had been reviewed before, and
\* the scheduler returned
LaterReview == ReviewReturned /\ result.before.reps >= 1

\* C12: on a review that is not the card's first, the new stability is the
\* stability formula applied to the card's stability, difficulty and
\* elapsed_days as they were before this update: the difficulty fed to it
\* is the one the card had before the review, not the one the same review
\* has just computed.
C12_StabilityFromOldDifficulty ==
    LaterReview =>
        ReviewedCard.stability =
            next_stability(fsrs, result.before.stability, result.before.difficulty,
                           result.rating, ReviewedCard.elapsed_days)

\* the cards add_card created whose every review is on record: each went
\* through review_card and returned
RecordedCards == { c \in AddedCards : Len(c.reviews) = c.reps }

\* a card in state review was rated EASY first and never AGAIN afterwards
ReviewOnlyByEasy ==
    \A c \in RecordedCards :
        c.state = "review" =>
            /\ c.reps >= 1
            /\ c.reviews[1].rating = EASY
            /\ \A i \in 2 .. Len(c.reviews) : c.reviews[i].rating # AGAIN

\* no step takes a card from learning or relearning to review
NoGraduation ==
    \A i \in 1 .. Len(cards) :
        cards[i].state \in {"learning", "relearning"} =>
            \A j \in 1 .. Len(cards') :
                cards'[j].id = cards[i].id => cards'[j].state # "review"

\* a review that leaves the card in learning or relearning schedules the
\* interval as computed and clamped, without the fuzz
NoFuzzOutsideReview ==
    (ReviewReturned /\ ReviewedCard.state \in {"learning", "relearning"}) =>
        ReviewedCard.scheduled_days =
            Min2(next_interval(fsrs, ReviewedCard.stability, result.rating),
                 Fx(fsrs.maximum_interval, 0))

AllCompleted == saves = << >>

\* C14: once all the add_card, remove_card, update_card and review_card
\* calls that were issued have completed, the file holds the cards the
\* dict holds, whatever the order in which the suspended saves resumed.
C14_FileMatchesMemory ==
    AllCompleted => disk = json_dumps(cards)

=============================================================================
